---- MODULE Spec2Model ----
(***************************************************************************)
(* Timer sensor, sleep-mode switch and timer-duration number of one        *)
(* Tornado AC device (custom_components/tornado), driven by the set_timer  *)
(* and cancel_timer services, the one-minute recurring callback, the       *)
(* coordinator's refresh notification and entity removal.                  *)
(*                                                                         *)
(* Time is an integer count of clock units, UnitsPerMinute of them to a    *)
(* minute.  A Python None is the empty tuple and a present value x is the  *)
(* one-element tuple <<x>>, so an Optional field is never compared with a  *)
(* value of another type.                                                  *)
(***************************************************************************)
EXTENDS Integers, Sequences, FiniteSets, TLC

\* ------------------------------------------------------------ bounds
\* clock units in one minute (the resolution of datetime.now() in the model)
UnitsPerMinute == 2
\* last clock value the model lets time reach
MaxNow == 4
\* number of successful arms (calls of async_track_time_interval) in one run
MaxArms == 2
\* number of turn_on / turn_off commands the switch gets in one run
MaxSwitchCalls == 1
\* number of set_timer service calls of the number entity not yet handled
MaxServiceQueue == 1

\* ------------------------------------------------------------ program constants
\* number.py: _attr_native_min_value / _attr_native_max_value
MinDuration == 0
MaxDuration == 480

None == << >>
Some(x) == << x >>

\* The device this model's three entities belong to, and another one that
\* shares the coordinator's store.
DeviceId == "dev1"
OtherDeviceId == "dev2"

\* action strings a set_timer service call can carry: the two the sensor
\* implements and one it does not (the service registers no schema)
Actions == {"turn_off", "sleep_mode", "fan_only"}

\* durations a set_timer service call can carry
Durations == {0 - 1, 0, 1, 2, MaxDuration, MaxDuration + 1}

\* params mappings the cloud reports for a device
ParamSets == { [pwr |-> 1], [pwr |-> 1, ac_slp |-> 0], [pwr |-> 1, ac_slp |-> 1] }

\* coordinator.data: None before the first refresh, else a mapping from the
\* ids of the devices fetched to their records.  (An empty mapping and None
\* are the same value here, as both are falsy in sensor.py:119.)
Stores ==
  { None }
  \cup { [i \in {DeviceId} |-> [endpointId |-> DeviceId, params |-> p]] : p \in ParamSets }
  \cup { [i \in {OtherDeviceId} |-> [endpointId |-> i, params |-> [pwr |-> 1, ac_slp |-> 1]]] }

VARIABLES
  now,                          \* datetime.now()
  coordinator_data,             \* coordinator.data
  timer_start_time,             \* sensor._timer_start_time
  timer_duration,               \* sensor._timer_duration
  timer_end_time,               \* sensor._timer_end_time
  target_action,                \* sensor._target_action
  update_timer_handle,          \* sensor._update_timer_handle
  attr_native_value,            \* sensor._attr_native_value
  attr_extra_state_attributes,  \* sensor._attr_extra_state_attributes
  attr_available,               \* sensor._attr_available
  switch_is_on,                 \* switch._attr_is_on
  switch_available,             \* switch._attr_available
  number_native_value,          \* number._attr_native_value
  number_available,             \* number._attr_available
  registrations,                \* live async_track_time_interval registrations
  handles,                      \* registrations created so far (handle ids 1..handles)
  tasks,                        \* _execute_timer_action tasks created, not yet run
  ntasks,                       \* tasks created so far
  calls,                        \* set_device_params calls made by those tasks
  switch_calls,                 \* set_device_params calls made by the switch
  service_queue,                \* set_timer service calls of the number, not yet handled
  number_result,                \* history: how the number's last set operation ended
  expired,                      \* history: arm-cycles that took the expiry branch
  removed,                      \* the entities were removed from hass
  lastOp                        \* history: the operation that ran last

timerVars == << timer_start_time, timer_duration, timer_end_time, target_action,
                update_timer_handle, attr_native_value, attr_extra_state_attributes >>
schedVars == << registrations, handles, tasks, ntasks, expired >>
obsVars == << attr_available, switch_is_on, switch_available, number_available,
             switch_calls, service_queue, number_result >>
vars == << now, coordinator_data, timerVars, schedVars, obsVars, number_native_value,
           calls, removed, lastOp >>

\* ------------------------------------------------------------ helpers
\* timedelta(minutes = m), in clock units
timedelta_minutes(m) == m * UnitsPerMinute

\* int(x) of the seconds themselves, the division by 60 left out
int_div_no_division(n, d) == n

\* int(x / 60) for a number of seconds x: truncation toward zero
int_div(n, d) == IF n >= 0 THEN n \div d ELSE 0 - ((0 - n) \div d)

max2(a, b) == IF a >= b THEN a ELSE b

\* datetime.isoformat(): the text of a timestamp, not the timestamp
isoformat(t) == << "iso", t >>

\* dict.get(key, default) on a params mapping, for the key ac_slp
get_ac_slp(params, default) == IF "ac_slp" \in DOMAIN params THEN params.ac_slp ELSE default

\* bool(x) of an integer
bool(x) == x # 0

\* the _device property of an entity whose _device_id is id
device_of(id, data) ==
  IF data = None THEN None
  ELSE IF id \in DOMAIN data THEN Some(data[id]) ELSE None

\* the _device property of the three entities
device(data) == device_of(DeviceId, data)

\* The sensor's own fields together with the scheduler's registrations and the
\* tasks of the event loop, as one record a method maps to its result.
Self == [ timer_start_time |-> timer_start_time,
          timer_duration |-> timer_duration,
          timer_end_time |-> timer_end_time,
          target_action |-> target_action,
          update_timer_handle |-> update_timer_handle,
          attr_native_value |-> attr_native_value,
          attrs |-> attr_extra_state_attributes,
          registrations |-> registrations,
          handles |-> handles,
          tasks |-> tasks,
          ntasks |-> ntasks,
          expired |-> expired ]

\* the next state's sensor, scheduler and task fields are those of record s
Becomes(s) ==
  /\ timer_start_time' = s.timer_start_time
  /\ timer_duration' = s.timer_duration
  /\ timer_end_time' = s.timer_end_time
  /\ target_action' = s.target_action
  /\ update_timer_handle' = s.update_timer_handle
  /\ attr_native_value' = s.attr_native_value
  /\ attr_extra_state_attributes' = s.attrs
  /\ registrations' = s.registrations
  /\ handles' = s.handles
  /\ tasks' = s.tasks
  /\ ntasks' = s.ntasks
  /\ expired' = s.expired

\* the attributes dict with the four timer keys set (dict.update)
timer_attrs(attrs, active, duration, start, end) ==
  [attrs EXCEPT !.timer_active = active, !.timer_duration = duration,
                !.timer_start_time = start, !.timer_end_time = end]

\* release_handle that drops the handle without calling it
release_handle_keeps_registration(s) == [s EXCEPT !.update_timer_handle = None]

\* if self._update_timer_handle: self._update_timer_handle(); ... = None
release_handle(s) ==
  IF s.update_timer_handle # None
  THEN [s EXCEPT !.registrations = @ \ {s.update_timer_handle[1]},
                 !.update_timer_handle = None]
  ELSE s

\* self.hass.async_create_task(self._execute_timer_action())
create_task(s) ==
  [s EXCEPT !.ntasks = @ + 1,
            !.tasks = @ \cup {[id |-> s.ntasks + 1, cycle |-> s.handles,
                                armed_action |-> s.target_action]},
            !.expired = @ \cup {s.handles}]

\* _update_timer_state whose expiry branch leaves _timer_end_time set
update_timer_state_keeps_deadline(s, t) ==
  IF s.timer_end_time = None
  THEN [s EXCEPT !.attr_native_value = 0,
                 !.attrs = timer_attrs(@, FALSE, None, None, None)]
  ELSE IF t >= s.timer_end_time[1]
  THEN release_handle(
         [create_task(s) EXCEPT !.timer_start_time = None,
                                !.timer_duration = None,
                                !.attr_native_value = 0,
                                !.attrs = timer_attrs(@, FALSE, None, None, None)])
  ELSE [s EXCEPT !.attr_native_value =
                    max2(0, int_div(s.timer_end_time[1] - t, UnitsPerMinute)),
                 !.attrs = timer_attrs(@, TRUE, s.timer_duration,
                              IF s.timer_start_time # None
                              THEN isoformat(s.timer_start_time[1]) ELSE None,
                              isoformat(s.timer_end_time[1]))]

\* _update_timer_state whose expiry branch does not cancel the update timer
update_timer_state_keeps_handle(s, t) ==
  IF s.timer_end_time = None
  THEN [s EXCEPT !.attr_native_value = 0,
                 !.attrs = timer_attrs(@, FALSE, None, None, None)]
  ELSE IF t >= s.timer_end_time[1]
  THEN [create_task(s) EXCEPT !.timer_start_time = None,
                              !.timer_duration = None,
                              !.timer_end_time = None,
                              !.attr_native_value = 0,
                              !.attrs = timer_attrs(@, FALSE, None, None, None)]
  ELSE [s EXCEPT !.attr_native_value =
                    max2(0, int_div(s.timer_end_time[1] - t, UnitsPerMinute)),
                 !.attrs = timer_attrs(@, TRUE, s.timer_duration,
                              IF s.timer_start_time # None
                              THEN isoformat(s.timer_start_time[1]) ELSE None,
                              isoformat(s.timer_end_time[1]))]

\* _update_timer_state that expires only after the deadline, not at it
update_timer_state_after_deadline(s, t) ==
  IF s.timer_end_time = None
  THEN [s EXCEPT !.attr_native_value = 0,
                 !.attrs = timer_attrs(@, FALSE, None, None, None)]
  ELSE IF t > s.timer_end_time[1]
  THEN release_handle(
         [create_task(s) EXCEPT !.timer_start_time = None,
                                !.timer_duration = None,
                                !.timer_end_time = None,
                                !.attr_native_value = 0,
                                !.attrs = timer_attrs(@, FALSE, None, None, None)])
  ELSE [s EXCEPT !.attr_native_value =
                    max2(0, int_div(s.timer_end_time[1] - t, UnitsPerMinute)),
                 !.attrs = timer_attrs(@, TRUE, s.timer_duration,
                              IF s.timer_start_time # None
                              THEN isoformat(s.timer_start_time[1]) ELSE None,
                              isoformat(s.timer_end_time[1]))]

\* _update_timer_state at clock value t
update_timer_state(s, t) ==
  IF s.timer_end_time = None
  THEN [s EXCEPT !.attr_native_value = 0,
                 !.attrs = timer_attrs(@, FALSE, None, None, None)]
  ELSE IF t >= s.timer_end_time[1]
  THEN release_handle(
         [create_task(s) EXCEPT !.timer_start_time = None,
                                !.timer_duration = None,
                                !.timer_end_time = None,
                                !.attr_native_value = 0,
                                !.attrs = timer_attrs(@, FALSE, None, None, None)])
  ELSE [s EXCEPT !.attr_native_value =
                    max2(0, int_div(s.timer_end_time[1] - t, UnitsPerMinute)),
                 !.attrs = timer_attrs(@, TRUE, s.timer_duration,
                              IF s.timer_start_time # None
                              THEN isoformat(s.timer_start_time[1]) ELSE None,
                              isoformat(s.timer_end_time[1]))]

\* async_cancel_timer without the immediate state update
async_cancel_timer_no_update(s, t) ==
  [release_handle(s) EXCEPT !.timer_start_time = None,
                            !.timer_duration = None,
                            !.timer_end_time = None]

\* async_cancel_timer that releases the registration and keeps the timer state
async_cancel_timer_keeps_deadline(s, t) == update_timer_state(release_handle(s), t)

\* async_cancel_timer that publishes the state before it clears the fields
async_cancel_timer_publishes_first(s, t) ==
  [update_timer_state(release_handle(s), t) EXCEPT !.timer_start_time = None,
                                                   !.timer_duration = None,
                                                   !.timer_end_time = None]

\* async_cancel_timer at clock value t
async_cancel_timer(s, t) ==
  update_timer_state(
    [release_handle(s) EXCEPT !.timer_start_time = None,
                              !.timer_duration = None,
                              !.timer_end_time = None], t)

\* async_track_time_interval(hass, self._periodic_timer_update, 1 minute)
track_time_interval(s) ==
  [s EXCEPT !.handles = @ + 1,
            !.registrations = @ \cup {s.handles + 1},
            !.update_timer_handle = Some(s.handles + 1)]

\* async_set_timer that returns early only for a negative duration
async_set_timer_arms_zero(s, t, duration_minutes, action) ==
  LET c == async_cancel_timer(s, t) IN
  IF duration_minutes < 0 THEN c
  ELSE update_timer_state(
         track_time_interval(
           [c EXCEPT !.timer_start_time = Some(t),
                     !.timer_duration = Some(duration_minutes),
                     !.timer_end_time = Some(t + timedelta_minutes(duration_minutes)),
                     !.target_action = action]), t)

\* async_set_timer without the immediate state update
async_set_timer_no_update(s, t, duration_minutes, action) ==
  LET c == async_cancel_timer(s, t) IN
  IF duration_minutes <= 0 THEN c
  ELSE track_time_interval(
         [c EXCEPT !.timer_start_time = Some(t),
                   !.timer_duration = Some(duration_minutes),
                   !.timer_end_time = Some(t + timedelta_minutes(duration_minutes)),
                   !.target_action = action])

\* async_set_timer(duration_minutes, action) at clock value t
async_set_timer(s, t, duration_minutes, action) ==
  LET c == async_cancel_timer(s, t) IN
  IF duration_minutes <= 0 THEN c
  ELSE update_timer_state(
         track_time_interval(
           [c EXCEPT !.timer_start_time = Some(t),
                     !.timer_duration = Some(duration_minutes),
                     !.timer_end_time = Some(t + timedelta_minutes(duration_minutes)),
                     !.target_action = action]), t)

\* async_will_remove_from_hass that cleans nothing up
async_will_remove_from_hass_noop(s) == s

\* async_will_remove_from_hass
async_will_remove_from_hass(s) == release_handle(s)

\* the set_device_params call _execute_timer_action makes for a task, given the
\* value of self._target_action and of self._device when it runs and whether
\* the call succeeds: None when the action is neither of the two implemented
execute_timer_action(task, action, dev, ok) ==
  IF action = "turn_off"
  THEN Some([cycle |-> task.cycle, armed_action |-> task.armed_action,
             device |-> dev, params |-> [pwr |-> 0], ok |-> ok, logged |-> ~ok])
  ELSE IF action = "sleep_mode"
  THEN Some([cycle |-> task.cycle, armed_action |-> task.armed_action,
             device |-> dev, params |-> [ac_slp |-> 1], ok |-> ok, logged |-> ~ok])
  ELSE None

\* the sensor's _handle_coordinator_update that takes a device reporting sleep
\* mode on as the end of the timer
sensor_handle_coordinator_update_sleep_cancels(s, available, data, t) ==
  IF device(data) = None
  THEN [self |-> s, available |-> FALSE]
  ELSE IF bool(get_ac_slp(device(data)[1].params, 0))
  THEN [self |-> async_cancel_timer([s EXCEPT !.attrs.sleep_mode_active = TRUE], t),
        available |-> TRUE]
  ELSE [self |-> update_timer_state([s EXCEPT !.attrs.sleep_mode_active = FALSE], t),
        available |-> TRUE]

\* the sensor's _handle_coordinator_update that updates the timer state also
\* when the device is absent
sensor_handle_coordinator_update_absent_updates(s, available, data, t) ==
  IF device(data) = None
  THEN [self |-> update_timer_state(s, t), available |-> FALSE]
  ELSE [self |-> update_timer_state(
                   [s EXCEPT !.attrs.sleep_mode_active =
                                bool(get_ac_slp(device(data)[1].params, 0))], t),
        available |-> TRUE]

\* the sensor's _handle_coordinator_update at clock value t: the sensor
\* record and the value of _attr_available
sensor_handle_coordinator_update(s, available, data, t) ==
  IF device(data) = None
  THEN [self |-> s, available |-> FALSE]
  ELSE [self |-> update_timer_state(
                   [s EXCEPT !.attrs.sleep_mode_active =
                                bool(get_ac_slp(device(data)[1].params, 0))], t),
        available |-> TRUE]

\* _handle_coordinator_update of the switch of device id: _attr_is_on and
\* _attr_available
switch_handle_coordinator_update_of(id, is_on, data) ==
  IF device_of(id, data) = None
  THEN [is_on |-> is_on, available |-> FALSE]
  ELSE [is_on |-> bool(get_ac_slp(device_of(id, data)[1].params, 0)),
        available |-> TRUE]

\* the switch's _handle_coordinator_update that takes an absent device as off
switch_handle_coordinator_update_absent_is_off(is_on, data) ==
  IF device(data) = None
  THEN [is_on |-> FALSE, available |-> FALSE]
  ELSE [is_on |-> bool(get_ac_slp(device(data)[1].params, 0)), available |-> TRUE]

\* the switch's _handle_coordinator_update: _attr_is_on and _attr_available
switch_handle_coordinator_update(is_on, data) ==
  switch_handle_coordinator_update_of(DeviceId, is_on, data)

\* coordinator.api.set_device_params(device, params): the coordinator's data
\* after the call, which only the next refresh replaces
set_device_params(data, dev, params) == data

\* async_turn_on that takes a successful call as the new state
async_turn_on_optimistic(is_on, dev, ok) ==
  [ is_on |-> IF ok THEN TRUE ELSE is_on,
    call |-> [device |-> dev, params |-> [ac_slp |-> 1], ok |-> ok,
              logged |-> ~ok, raised |-> FALSE] ]

\* the switch's async_turn_on, given self._device and whether the call
\* succeeds: _attr_is_on and the set_device_params call made
async_turn_on(is_on, dev, ok) ==
  [ is_on |-> is_on,
    call |-> [device |-> dev, params |-> [ac_slp |-> 1], ok |-> ok,
              logged |-> ~ok, raised |-> FALSE] ]

\* the switch's async_turn_off
async_turn_off(is_on, dev, ok) ==
  [ is_on |-> is_on,
    call |-> [device |-> dev, params |-> [ac_slp |-> 0], ok |-> ok,
              logged |-> ~ok, raised |-> FALSE] ]

\* a float value of the number entity: its whole part and its tenths
NumberValue(whole, tenths) == [whole |-> whole, tenths |-> tenths]

\* values the number entity can be set to: 0.0, 1.0 and 1.5
NumberValues == { NumberValue(0, 0), NumberValue(1, 0), NumberValue(1, 5) }

\* int(value) of a float that is not negative: the fraction is dropped
int_of_value(value) == value.whole

\* the data of the set_timer service call async_set_native_value makes
set_timer_call(value) ==
  [ entity_id |-> << "sensor.tornado_", DeviceId, "_timer" >>,
    duration |-> int_of_value(value),
    action |-> "turn_off" ]

\* async_set_native_value that stores the value before it calls the service
async_set_native_value_stores_first(current, value, ok) ==
  [ value |-> value,
    request |-> IF ok THEN Some(set_timer_call(value)) ELSE None,
    result |-> [value |-> value, ok |-> ok, logged |-> ~ok, raised |-> FALSE] ]

\* the number's async_set_native_value, given the stored value, the new one
\* and whether hass.services.async_call returns or raises: the stored value,
\* the service call handed over, and how the operation ended
async_set_native_value(current, value, ok) ==
  [ value |-> IF ok THEN value ELSE current,
    request |-> IF ok THEN Some(set_timer_call(value)) ELSE None,
    result |-> [value |-> value, ok |-> ok, logged |-> ~ok, raised |-> FALSE] ]

\* the number's _handle_coordinator_update: _attr_available
number_handle_coordinator_update(data) == device(data) # None

\* history: the operation that ran last, with the registrations it created and
\* released; prev is the duration of the async_set_timer that ran just before,
\* and repeat tells that an async_cancel_timer ran right after another
Op(name, duration, s, prev) ==
  [ op |-> name, duration |-> duration,
    created |-> s.registrations \ registrations,
    released |-> registrations \ s.registrations,
    prev |-> prev,
    repeat |-> name = "async_cancel_timer" /\ lastOp.op = name ]

OtherOp == [ op |-> "other", duration |-> None, created |-> {}, released |-> {},
             prev |-> None, repeat |-> FALSE ]

\* ------------------------------------------------------------ initial state
InitAttrs == [ timer_active |-> FALSE, timer_duration |-> None,
               timer_start_time |-> None, timer_end_time |-> None,
               target_action |-> "turn_off", sleep_mode_active |-> FALSE ]

Init ==
  /\ now = 0
  /\ coordinator_data \in Stores
  /\ timer_start_time = None
  /\ timer_duration = None
  /\ timer_end_time = None
  /\ target_action = "turn_off"
  /\ update_timer_handle = None
  /\ attr_native_value = 0
  /\ attr_extra_state_attributes = InitAttrs
  /\ attr_available = TRUE
  /\ switch_is_on = FALSE
  /\ switch_available = TRUE
  /\ number_native_value = NumberValue(0, 0)
  /\ number_available = TRUE
  /\ registrations = {}
  /\ handles = 0
  /\ tasks = {}
  /\ ntasks = 0
  /\ calls = << >>
  /\ switch_calls = << >>
  /\ service_queue = << >>
  /\ number_result = None
  /\ expired = {}
  /\ removed = FALSE
  /\ lastOp = OtherOp

\* ------------------------------------------------------------ actions
\* the set_timer service: resolves the entity and awaits its async_set_timer
handle_set_timer(duration, action, found) ==
  /\ ~removed
  /\ duration > 0 /\ found => handles < MaxArms
  /\ LET s == IF found THEN async_set_timer(Self, now, duration, action) ELSE Self IN
       /\ Becomes(s)
       /\ lastOp' = IF found THEN Op("async_set_timer", Some(duration), s, None)
                    ELSE OtherOp
  /\ UNCHANGED << now, coordinator_data, obsVars, number_native_value, calls, removed >>

\* the cancel_timer service: resolves the entity and awaits its async_cancel_timer
handle_cancel_timer(found) ==
  /\ ~removed
  /\ LET s == IF found THEN async_cancel_timer(Self, now) ELSE Self IN
       /\ Becomes(s)
       /\ lastOp' = IF found
                    THEN Op("async_cancel_timer", None, s,
                            IF lastOp.op = "async_set_timer" THEN lastOp.duration ELSE None)
                    ELSE OtherOp
  /\ UNCHANGED << now, coordinator_data, obsVars, number_native_value, calls, removed >>

\* the recurring callback of a live registration fires
periodic_timer_update(h) ==
  /\ h \in registrations
  /\ Becomes(update_timer_state(Self, now))
  /\ lastOp' = OtherOp
  /\ UNCHANGED << now, coordinator_data, obsVars, number_native_value, calls, removed >>

\* a refresh cycle: the coordinator replaces its data and notifies the
\* listeners, which are the entities not removed
coordinator_refresh(data) ==
  /\ coordinator_data' = data
  /\ IF removed
     THEN UNCHANGED << timerVars, schedVars, obsVars >>
     ELSE LET r == sensor_handle_coordinator_update(Self, attr_available, data, now)
              w == switch_handle_coordinator_update(switch_is_on, data) IN
            /\ Becomes(r.self)
            /\ attr_available' = r.available
            /\ switch_is_on' = w.is_on
            /\ switch_available' = w.available
            /\ number_available' = number_handle_coordinator_update(data)
            /\ switch_calls' = switch_calls
            /\ UNCHANGED << service_queue, number_result >>
  /\ lastOp' = OtherOp
  /\ UNCHANGED << now, number_native_value, calls, removed >>

\* the event loop runs a task created at an expiry, to its end
run_timer_action(task, ok) ==
  /\ task \in tasks
  /\ tasks' = tasks \ {task}
  /\ LET c == execute_timer_action(task, target_action, device(coordinator_data), ok) IN
       calls' = IF c = None THEN calls ELSE Append(calls, c[1])
  /\ lastOp' = OtherOp
  /\ UNCHANGED << now, coordinator_data, timerVars, registrations, handles, ntasks,
                  expired, obsVars, number_native_value, removed >>

\* the entities are removed from hass
remove_entity ==
  /\ ~removed
  /\ removed' = TRUE
  /\ Becomes(async_will_remove_from_hass(Self))
  /\ lastOp' = OtherOp
  /\ UNCHANGED << now, coordinator_data, obsVars, number_native_value, calls >>

\* the clock advances by one unit
advance_time ==
  /\ now < MaxNow
  /\ now' = now + 1
  /\ lastOp' = OtherOp
  /\ UNCHANGED << coordinator_data, timerVars, schedVars, obsVars, number_native_value,
                  calls, removed >>

\* the switch is told to turn sleep mode on
switch_turn_on(ok) ==
  /\ ~removed
  /\ Len(switch_calls) < MaxSwitchCalls
  /\ LET r == async_turn_on(switch_is_on, device(coordinator_data), ok) IN
       /\ switch_is_on' = r.is_on
       /\ switch_calls' = Append(switch_calls, r.call)
       /\ coordinator_data' =
            set_device_params(coordinator_data, r.call.device, r.call.params)
  /\ lastOp' = OtherOp
  /\ UNCHANGED << now, timerVars, schedVars, attr_available, switch_available,
                  number_available, number_native_value, calls, removed,
                  service_queue, number_result >>

\* the switch is told to turn sleep mode off
switch_turn_off(ok) ==
  /\ ~removed
  /\ Len(switch_calls) < MaxSwitchCalls
  /\ LET r == async_turn_off(switch_is_on, device(coordinator_data), ok) IN
       /\ switch_is_on' = r.is_on
       /\ switch_calls' = Append(switch_calls, r.call)
       /\ coordinator_data' =
            set_device_params(coordinator_data, r.call.device, r.call.params)
  /\ lastOp' = OtherOp
  /\ UNCHANGED << now, timerVars, schedVars, attr_available, switch_available,
                  number_available, number_native_value, calls, removed,
                  service_queue, number_result >>

\* the number entity is set to value
number_set_native_value(value, ok) ==
  /\ ~removed
  /\ Len(service_queue) < MaxServiceQueue
  /\ LET r == async_set_native_value(number_native_value, value, ok) IN
       /\ number_native_value' = r.value
       /\ service_queue' = IF r.request = None THEN service_queue
                           ELSE Append(service_queue, r.request[1])
       /\ number_result' = Some(r.result)
  /\ lastOp' = OtherOp
  /\ UNCHANGED << now, coordinator_data, timerVars, schedVars, attr_available,
                  switch_is_on, switch_available, number_available, switch_calls,
                  calls, removed >>

\* hass runs handle_set_timer for the oldest service call of the number; the
\* entity id of the call may or may not resolve to the timer sensor
service_dispatch(found) ==
  /\ service_queue # << >>
  /\ removed => ~found
  /\ Head(service_queue).duration > 0 /\ found => handles < MaxArms
  /\ LET req == Head(service_queue)
         s == IF found THEN async_set_timer(Self, now, req.duration, req.action)
              ELSE Self IN
       /\ Becomes(s)
       /\ lastOp' = IF found THEN Op("async_set_timer", Some(req.duration), s, None)
                    ELSE OtherOp
  /\ service_queue' = Tail(service_queue)
  /\ UNCHANGED << now, coordinator_data, attr_available, switch_is_on,
                  switch_available, number_available, switch_calls, number_result,
                  number_native_value, calls, removed >>

\* the steps of the program, for service calls that carry a duration of durs
\* and refreshes that fetch a store of stores
NextOver(durs, stores) ==
  \/ \E d \in durs, a \in Actions, f \in BOOLEAN : handle_set_timer(d, a, f)
  \/ \E f \in BOOLEAN : handle_cancel_timer(f)
  \/ \E h \in registrations : periodic_timer_update(h)
  \/ \E data \in stores : coordinator_refresh(data)
  \/ \E task \in tasks, ok \in BOOLEAN : run_timer_action(task, ok)
  \/ remove_entity
  \/ advance_time

Next == NextOver(Durations, Stores)

Spec == Init /\ [][Next]_vars

\* ------------------------------------------------------------ fairness
\* durations whose deadline the clock of the model can reach, and 0
ReachableDurations == { d \in Durations : d >= 0 /\ timedelta_minutes(d) <= MaxNow }

FairNext == NextOver(ReachableDurations, Stores)

\* The clock advances and the scheduler keeps firing a live registration's
\* callback (async_track_time_interval fires every minute until released).
FairSpec ==
  /\ Init
  /\ [][FairNext]_vars
  /\ WF_vars(advance_time)
  /\ WF_vars(\E h \in registrations : periodic_timer_update(h))

\* ------------------------------------------------------------ switch commands
\* stores in which this device reports sleep mode off, on, or is not fetched
SwitchStores ==
  { None, [i \in {DeviceId} |-> [endpointId |-> DeviceId,
                                  params |-> [pwr |-> 1, ac_slp |-> 0]]],
          [i \in {DeviceId} |-> [endpointId |-> DeviceId,
                                  params |-> [pwr |-> 1, ac_slp |-> 1]]] }

\* the program with the switch's commands, for sleep_mode timers of one minute
SwitchNext ==
  \/ handle_set_timer(1, "sleep_mode", TRUE)
  \/ handle_cancel_timer(TRUE)
  \/ \E h \in registrations : periodic_timer_update(h)
  \/ \E data \in SwitchStores : coordinator_refresh(data)
  \/ \E task \in tasks, ok \in BOOLEAN : run_timer_action(task, ok)
  \/ remove_entity
  \/ advance_time
  \/ \E ok \in BOOLEAN : switch_turn_on(ok)
  \/ \E ok \in BOOLEAN : switch_turn_off(ok)

SwitchInit == Init /\ coordinator_data \in SwitchStores

SwitchSpec == SwitchInit /\ [][SwitchNext]_vars

\* ------------------------------------------------------------ number entity
\* the program with the number's set operation, for sleep_mode timers of one
\* minute armed through the service directly
NumberNext ==
  \/ \E value \in NumberValues, ok \in BOOLEAN : number_set_native_value(value, ok)
  \/ \E found \in BOOLEAN : service_dispatch(found)
  \/ handle_set_timer(1, "sleep_mode", TRUE)
  \/ handle_cancel_timer(TRUE)
  \/ \E h \in registrations : periodic_timer_update(h)
  \/ \E data \in SwitchStores : coordinator_refresh(data)
  \/ \E task \in tasks, ok \in BOOLEAN : run_timer_action(task, ok)
  \/ remove_entity
  \/ advance_time

NumberSpec == SwitchInit /\ [][NumberNext]_vars

\* ------------------------------------------------------------ properties
TimerIdle ==
  /\ timer_end_time = None
  /\ timer_start_time = None
  /\ timer_duration = None

\* the params an action stands for at expiry
ExpectedParams(action) ==
  IF action = "turn_off" THEN [pwr |-> 0] ELSE [ac_slp |-> 1]

Implemented(action) == action \in {"turn_off", "sleep_mode"}

CallsOf(c) == { i \in 1..Len(calls) : calls[i].cycle = c }
TasksOf(c) == { k \in tasks : k.cycle = c }

\* the arm-cycle c took the expiry branch and no later arm followed it
ExpiredLast(c) == c \in expired /\ c = handles

\* C1 as stated: every arm-cycle that expired, of whatever action the arm took,
\* has exactly one setParams call (made, or still to be made by its task) that
\* carries the params of its action, and the timer is Idle with no registration.
C1_ExactlyOneCallAnyAction ==
  \A c \in expired :
    ExpiredLast(c) =>
      /\ Cardinality(CallsOf(c)) + Cardinality(TasksOf(c)) = 1
      /\ \A i \in CallsOf(c) : calls[i].params = ExpectedParams(target_action)
      /\ TimerIdle /\ registrations = {} /\ update_timer_handle = None

\* C1 amended: an arm-cycle that expired and was not followed by another arm is
\* Idle with no registration, whichever of tick and refresh saw the deadline and
\* whatever ran since; it had one action task; if its action is turn_off or
\* sleep_mode that task makes exactly one setParams call, with that action's
\* params, and for any other action string it makes none.
C1_ExactlyOneCallImplementedAction ==
  \A c \in expired :
    ExpiredLast(c) =>
      /\ TimerIdle /\ registrations = {} /\ update_timer_handle = None
      /\ Cardinality(TasksOf(c)) <= 1
      /\ IF Implemented(target_action)
         THEN /\ Cardinality(CallsOf(c)) + Cardinality(TasksOf(c)) = 1
              /\ \A i \in CallsOf(c) : calls[i].params = ExpectedParams(target_action)
         ELSE CallsOf(c) = {}

C1_Witness ==
  \E c \in expired :
    /\ ExpiredLast(c)
    /\ Implemented(target_action)
    /\ CallsOf(c) # {}
    /\ now > 0

\* C2 as stated: an async_set_timer whose duration is outside [0, 480] leaves
\* the deadline, start, duration, action, handle and registrations as they were.
C2_OutOfRangeRejected ==
  [][ (lastOp'.op = "async_set_timer"
        /\ lastOp'.duration[1] \notin MinDuration..MaxDuration)
      => UNCHANGED << timer_start_time, timer_duration, timer_end_time, target_action,
                      update_timer_handle, registrations, handles >> ]_vars

\* C3: at most one registration is live, and it is the one the sensor holds
\* the handle of, under every interleaving of the operations.
C3_AtMostOneRegistration ==
  /\ Cardinality(registrations) <= 1
  /\ \A h \in registrations : update_timer_handle = Some(h)

\* a re-arm of an armed timer: one registration released, one created
C3_Witness ==
  /\ lastOp.op = "async_set_timer"
  /\ lastOp.released # {}
  /\ lastOp.created # {}
  /\ Cardinality(registrations) = 1

\* C4: the published timer_active is true exactly when a deadline is set, and
\* when it is not the published value is 0 and duration, start and end are None.
C4_ActiveIffDeadline ==
  /\ attr_extra_state_attributes.timer_active <=> (timer_end_time # None)
  /\ timer_end_time = None =>
       /\ attr_native_value = 0
       /\ attr_extra_state_attributes.timer_duration = None
       /\ attr_extra_state_attributes.timer_start_time = None
       /\ attr_extra_state_attributes.timer_end_time = None

\* an armed timer was cancelled
C4_Witness ==
  /\ lastOp.op = "async_cancel_timer"
  /\ lastOp.released # {}
  /\ ~attr_extra_state_attributes.timer_active
  /\ timer_end_time = None

\* C5 as stated: a registration is live if and only if a deadline is set, in
\* every reachable state, entity teardown included.
C5_RegistrationIffArmed ==
  /\ Cardinality(registrations) <= 1
  /\ (registrations # {}) <=> (timer_end_time # None)

\* C5 amended: while the entity is not removed, exactly one registration is live
\* when a deadline is set and none when it is not; once the entity is removed
\* no registration is live, whether or not a deadline is still set.
C5_RegistrationIffArmedUntilRemoved ==
  /\ Cardinality(registrations) <= 1
  /\ ~removed => ((registrations # {}) <=> (timer_end_time # None))
  /\ removed => registrations = {}

\* an expiry returned the timer to Idle and released its registration
C5_Witness ==
  /\ ~removed
  /\ handles \in expired
  /\ timer_end_time = None
  /\ registrations = {}

\* C6: a failed setParams call of an expiry is logged, its arm-cycle is not
\* armed and has no live registration, and the cycle gets no second call or task.
C6_FailedExpiryCallLeavesIdle ==
  \A i \in 1..Len(calls) :
    ~calls[i].ok =>
      /\ calls[i].logged
      /\ ~(timer_end_time # None /\ handles = calls[i].cycle)
      /\ calls[i].cycle \notin registrations
      /\ CallsOf(calls[i].cycle) = {i}
      /\ TasksOf(calls[i].cycle) = {}

C6_Witness ==
  \E i \in 1..Len(calls) :
    /\ ~calls[i].ok
    /\ calls[i].cycle = handles
    /\ TimerIdle
    /\ registrations = {}

\* C7 as stated: every setParams call of an expiry carries the params of the
\* action of the arm-cycle that expired.
C7_CallCarriesExpiredCyclesAction ==
  \A i \in 1..Len(calls) :
    Implemented(calls[i].armed_action) =>
      calls[i].params = ExpectedParams(calls[i].armed_action)

\* C8: under fair ticks and a fair clock, an armed timer whose deadline the
\* clock can reach returns to Idle with its registration released, whether its
\* setParams call succeeds or fails, unless it is re-armed or the entity is
\* removed first.
C8_ArmedEventuallyIdle ==
  \A h \in 1..MaxArms :
    [] ( ( /\ update_timer_handle = Some(h)
           /\ timer_end_time # None
           /\ timer_end_time[1] <= MaxNow
           /\ ~removed )
         => <> ( \/ TimerIdle /\ registrations = {}
                 \/ handles > h
                 \/ removed ) )

\* an expiry whose call failed, and one whose call succeeded, both left Idle
C8_Witness ==
  /\ TimerIdle
  /\ registrations = {}
  /\ tasks = {}
  /\ \E i \in CallsOf(handles) : calls[i].ok

\* C9 as stated: removing the entity leaves the sensor, the registrations and
\* the tasks as async_cancel_timer would.
C9_TeardownIsCancel ==
  [][ (~removed /\ removed') => Becomes(async_cancel_timer(Self, now)) ]_vars

\* C9 amended: removing the entity releases the registration as
\* async_cancel_timer would and leaves none live and no handle, from any state;
\* the deadline, start, duration, action and published values stay as they were.
C9_TeardownReleasesRegistration ==
  [][ (~removed /\ removed') =>
        /\ registrations' = async_cancel_timer(Self, now).registrations
        /\ update_timer_handle' = async_cancel_timer(Self, now).update_timer_handle
        /\ registrations' = {}
        /\ update_timer_handle' = None
        /\ UNCHANGED << timer_start_time, timer_duration, timer_end_time, target_action,
                        attr_native_value, attr_extra_state_attributes, tasks, calls >>
    ]_vars

\* the entity was removed while its timer was armed
C9_Witness ==
  /\ removed
  /\ timer_end_time # None
  /\ attr_extra_state_attributes.timer_active
  /\ update_timer_handle = None
  /\ registrations = {}

\* C10: async_set_timer with a duration in [0, 480] followed at once by
\* async_cancel_timer leaves the timer Idle, neither step creates a task or a
\* call, and the cancel releases exactly the registration the arm created
\* (none when the duration is 0).
C10_ArmThenCancel ==
  [][ /\ lastOp'.op = "async_set_timer" => (calls' = calls /\ tasks' = tasks)
      /\ ( /\ lastOp.op = "async_set_timer"
           /\ lastOp.duration[1] \in MinDuration..MaxDuration
           /\ lastOp'.op = "async_cancel_timer" )
         => /\ timer_end_time' = None
            /\ timer_start_time' = None
            /\ timer_duration' = None
            /\ update_timer_handle' = None
            /\ ~attr_extra_state_attributes'.timer_active
            /\ attr_native_value' = 0
            /\ calls' = calls /\ tasks' = tasks
            /\ registrations' = {}
            /\ registrations \ registrations' = lastOp.created
            /\ lastOp'.released = lastOp.created
            /\ Cardinality(lastOp.created) = (IF lastOp.duration[1] = 0 THEN 0 ELSE 1)
    ]_vars

\* a cancel that ran right after an arm of a positive valid duration
C10_Witness ==
  /\ lastOp.op = "async_cancel_timer"
  /\ lastOp.prev # None
  /\ lastOp.prev[1] \in 1..MaxDuration
  /\ Cardinality(lastOp.released) = 1
  /\ TimerIdle
\* C11: an async_cancel_timer that runs right after another leaves the timer
\* fields, the published value and attributes, the registrations, the tasks and
\* the calls as the first left them and releases nothing; an
\* async_cancel_timer of a timer with no deadline changes none of them either.
C11_CancelIdempotent ==
  [][ /\ (lastOp.op = "async_cancel_timer" /\ lastOp'.op = "async_cancel_timer")
         => /\ UNCHANGED << timerVars, schedVars, calls, obsVars >>
            /\ lastOp'.released = {}
      /\ (lastOp'.op = "async_cancel_timer" /\ timer_end_time = None)
         => /\ UNCHANGED << timerVars, schedVars, calls, obsVars >>
            /\ lastOp'.released = {}
    ]_vars

\* a second cancel ran right after the cancel of an armed timer
C11_Witness ==
  /\ lastOp.op = "async_cancel_timer"
  /\ lastOp.repeat
  /\ handles > 0
  /\ handles \notin expired
  /\ TimerIdle
  /\ registrations = {}

\* C12: async_set_timer with duration 0, whatever its action and whether or
\* not a timer is armed, leaves the sensor, the registrations and the tasks as
\* async_cancel_timer would: the registration is released and none is created,
\* no task and no call is made, the timer is Idle and the published values are
\* the idle ones; the action of the call is not stored.
C12_ArmZeroIsCancel ==
  [][ (lastOp'.op = "async_set_timer" /\ lastOp'.duration = Some(0))
      => /\ Becomes(async_cancel_timer(Self, now))
         /\ registrations' = {}
         /\ lastOp'.created = {}
         /\ lastOp'.released = registrations
         /\ update_timer_handle' = None
         /\ timer_end_time' = None /\ timer_start_time' = None /\ timer_duration' = None
         /\ target_action' = target_action
         /\ attr_native_value' = 0
         /\ attr_extra_state_attributes' =
              timer_attrs(attr_extra_state_attributes, FALSE, None, None, None)
         /\ tasks' = tasks /\ calls' = calls /\ handles' = handles
    ]_vars

\* async_set_timer with duration 0 ran on an armed timer and released its
\* registration
C12_Witness ==
  /\ lastOp.op = "async_set_timer"
  /\ lastOp.duration = Some(0)
  /\ lastOp.released # {}
  /\ TimerIdle
  /\ ~attr_extra_state_attributes.timer_active

\* C13: the published remaining minutes are a natural number in every state,
\* never more than the duration of the armed timer, and from one state to the
\* next of the same arm-cycle (tick, refresh, expiry, cancel or any other step
\* that is not a new arm) they do not grow.
C13_RemainingBoundedNonIncreasing ==
  [][ /\ attr_native_value \in Nat
      /\ attr_native_value' \in Nat
      /\ timer_duration # None => attr_native_value <= timer_duration[1]
      /\ timer_duration' # None => attr_native_value' <= timer_duration'[1]
      /\ timer_duration = None => attr_native_value = 0
      /\ (timer_end_time # None /\ handles' = handles)
           => attr_native_value' <= attr_native_value
    ]_vars

\* a tick or refresh of an armed timer published fewer minutes than its
\* duration, and more than none
C13_Witness ==
  /\ timer_end_time # None
  /\ timer_duration # None
  /\ registrations # {}
  /\ attr_native_value > 0
  /\ attr_native_value < timer_duration[1]
  /\ now < timer_end_time[1]

\* whole minutes from the start of the armed timer to now, when now is a whole
\* number of minutes after it
MinutesSinceStart == (now - timer_start_time[1]) \div UnitsPerMinute

OnTheMinute == (now - timer_start_time[1]) % UnitsPerMinute = 0

\* C14: for a timer armed with action turn_off and duration d, a tick that
\* fires k whole minutes after the arm, 0 < k < d, publishes d - k remaining
\* minutes and timer_active true and creates no task and no call; a tick that
\* fires d minutes after the arm creates the one task of the arm-cycle,
\* publishes 0 and timer_active false and leaves the timer Idle with no
\* registration; and that task, run while the stored action is still
\* turn_off, calls set_device_params once with {pwr: 0}.
C14_TickCountsDownThenTurnsOff ==
  [][ /\ ( /\ \E h \in registrations : periodic_timer_update(h)
           /\ timer_end_time # None /\ timer_start_time # None /\ timer_duration # None
           /\ target_action = "turn_off"
           /\ OnTheMinute /\ MinutesSinceStart > 0 )
         => IF MinutesSinceStart < timer_duration[1]
            THEN /\ attr_native_value' = timer_duration[1] - MinutesSinceStart
                 /\ attr_extra_state_attributes'.timer_active
                 /\ timer_end_time' = timer_end_time
                 /\ registrations' = registrations
                 /\ tasks' = tasks /\ calls' = calls
            ELSE /\ tasks' = tasks \cup {[id |-> ntasks + 1, cycle |-> handles,
                                          armed_action |-> "turn_off"]}
                 /\ Cardinality(tasks') = Cardinality(tasks) + 1
                 /\ calls' = calls
                 /\ attr_native_value' = 0
                 /\ ~attr_extra_state_attributes'.timer_active
                 /\ timer_end_time' = None /\ timer_start_time' = None
                 /\ timer_duration' = None
                 /\ update_timer_handle' = None
                 /\ registrations' = {}
      /\ \A task \in tasks :
           ( /\ \E ok \in BOOLEAN : run_timer_action(task, ok)
             /\ task.armed_action = "turn_off" /\ target_action = "turn_off" )
           => /\ Len(calls') = Len(calls) + 1
              /\ calls'[Len(calls')].params = [pwr |-> 0]
              /\ calls'[Len(calls')].cycle = task.cycle
    ]_vars

\* the turn_off timer counted down on a tick, expired at its deadline and its
\* task made the {pwr: 0} call
C14_Witness ==
  /\ handles \in expired
  /\ TimerIdle
  /\ registrations = {}
  /\ target_action = "turn_off"
  /\ attr_native_value = 0
  /\ \E i \in CallsOf(handles) :
       /\ calls[i].armed_action = "turn_off"
       /\ calls[i].params = [pwr |-> 0]
  /\ Cardinality(CallsOf(handles)) = 1

\* C15: right after async_set_timer(d, action) with 0 < d <= 480 returned, the
\* published attributes show timer_active true, duration d, the arm's time as
\* start and the arm's time plus d minutes as end, the fields hold the same
\* start, duration, deadline and the action, and the call registered exactly
\* one recurring callback, which is the one live registration.
C15_ArmPublishesActive ==
  ( /\ lastOp.op = "async_set_timer"
    /\ lastOp.duration[1] \in 1..MaxDuration )
  => /\ attr_extra_state_attributes.timer_active
     /\ attr_extra_state_attributes.timer_duration = lastOp.duration
     /\ attr_extra_state_attributes.timer_start_time = isoformat(now)
     /\ attr_extra_state_attributes.timer_end_time =
          isoformat(now + lastOp.duration[1] * UnitsPerMinute)
     /\ timer_start_time = Some(now)
     /\ timer_duration = lastOp.duration
     /\ timer_end_time = Some(now + lastOp.duration[1] * UnitsPerMinute)
     /\ Cardinality(lastOp.created) = 1
     /\ registrations = lastOp.created
     /\ update_timer_handle = Some(handles)
     /\ registrations = {handles}

\* async_set_timer with the longest valid duration returned, later than the
\* start of the run
C15_Witness ==
  /\ lastOp.op = "async_set_timer"
  /\ lastOp.duration = Some(MaxDuration)
  /\ now > 0
  /\ attr_extra_state_attributes.timer_active
  /\ registrations # {}

\* C16 as stated: while a timer is armed, the published target_action
\* attribute is the action the arm was given.
C16_PublishedTargetActionIsArmed ==
  timer_end_time # None
  => attr_extra_state_attributes.target_action = target_action

\* a store that holds this device with params p
StoreWith(p) == [i \in {DeviceId} |-> [endpointId |-> DeviceId, params |-> p]]

\* C17: a refresh that finds the device leaves the deadline, start, duration,
\* action, handle, published value, registrations, tasks and calls exactly as
\* a refresh at the same time with any other value of ac_slp (or none) in the
\* params would have left them; the published attributes differ at most in
\* sleep_mode_active, which is bool(ac_slp) of the params delivered.
C17_SleepFlagLeavesTimerState ==
  [][ ( /\ \E data \in Stores : coordinator_refresh(data)
        /\ ~removed
        /\ device(coordinator_data') # None )
      => /\ attr_extra_state_attributes'.sleep_mode_active =
              bool(get_ac_slp(device(coordinator_data')[1].params, 0))
         /\ calls' = calls
         /\ \A q \in ParamSets :
              LET alt == sensor_handle_coordinator_update(
                           Self, attr_available, StoreWith(q), now).self IN
                /\ timer_end_time' = alt.timer_end_time
                /\ timer_start_time' = alt.timer_start_time
                /\ timer_duration' = alt.timer_duration
                /\ target_action' = alt.target_action
                /\ update_timer_handle' = alt.update_timer_handle
                /\ attr_native_value' = alt.attr_native_value
                /\ registrations' = alt.registrations
                /\ handles' = alt.handles
                /\ tasks' = alt.tasks
                /\ expired' = alt.expired
                /\ [attr_extra_state_attributes' EXCEPT !.sleep_mode_active = FALSE]
                     = [alt.attrs EXCEPT !.sleep_mode_active = FALSE]
    ]_vars

\* a refresh delivered sleep mode on while the timer was armed and counted
\* down, and the timer is still armed
C17_Witness ==
  /\ ~removed
  /\ device(coordinator_data) # None
  /\ attr_extra_state_attributes.sleep_mode_active
  /\ attr_available
  /\ timer_end_time # None
  /\ registrations # {}
  /\ attr_native_value < timer_duration[1]

\* C18: a refresh whose store lacks the device sets _attr_available false on
\* the sensor, the switch and the number and leaves the sleep_mode_active
\* attribute, is_on and the whole timer state as they were; a refresh whose
\* store holds the device sets all three available, whatever they were before,
\* and recomputes sleep_mode_active and is_on from ac_slp.  The switch of
\* another device, run on the same store, is available with is_on recomputed
\* when its device is in the store, whether or not this device is.
C18_AbsentDeviceUnavailable ==
  [][ ( /\ \E data \in Stores : coordinator_refresh(data)
        /\ ~removed )
      => /\ IF device(coordinator_data') = None
            THEN /\ ~attr_available' /\ ~switch_available' /\ ~number_available'
                 /\ switch_is_on' = switch_is_on
                 /\ UNCHANGED << timerVars, schedVars, calls >>
            ELSE /\ attr_available' /\ switch_available' /\ number_available'
                 /\ switch_is_on' =
                      bool(get_ac_slp(device(coordinator_data')[1].params, 0))
                 /\ attr_extra_state_attributes'.sleep_mode_active = switch_is_on'
         /\ \A b \in BOOLEAN :
              LET other == switch_handle_coordinator_update_of(
                             OtherDeviceId, b, coordinator_data') IN
                IF coordinator_data' # None /\ OtherDeviceId \in DOMAIN coordinator_data'
                THEN /\ other.available
                     /\ other.is_on =
                          bool(get_ac_slp(coordinator_data'[OtherDeviceId].params, 0))
                ELSE ~other.available /\ other.is_on = b
    ]_vars

\* a refresh found the device gone while sleep mode was on and a timer armed:
\* the entities are unavailable and still show sleep mode on
C18_Witness ==
  /\ ~removed
  /\ device(coordinator_data) = None
  /\ coordinator_data # None
  /\ ~attr_available /\ ~switch_available /\ ~number_available
  /\ switch_is_on
  /\ attr_extra_state_attributes.sleep_mode_active
  /\ timer_end_time # None

\* C19: a turn_on or turn_off command of the switch makes exactly one
\* set_device_params call, with {ac_slp: 1} or {ac_slp: 0} and the switch's
\* device, and leaves is_on and the coordinator's data as they were whether
\* the call succeeds or fails; a failed call is logged and not raised; and
\* is_on changes in no step but a refresh.
C19_CommandLeavesCachedValue ==
  [][ /\ Len(switch_calls') # Len(switch_calls)
         => /\ Len(switch_calls') = Len(switch_calls) + 1
            /\ SubSeq(switch_calls', 1, Len(switch_calls)) = switch_calls
            /\ LET c == switch_calls'[Len(switch_calls')] IN
                 /\ c.params \in {[ac_slp |-> 1], [ac_slp |-> 0]}
                 /\ c.device = device(coordinator_data)
                 /\ c.logged = ~c.ok
                 /\ ~c.raised
            /\ switch_is_on' = switch_is_on
            /\ coordinator_data' = coordinator_data
            /\ UNCHANGED << timerVars, schedVars, calls >>
      /\ (\E ok \in BOOLEAN : switch_turn_on(ok) \/ switch_turn_off(ok))
         => Len(switch_calls') = Len(switch_calls) + 1
      /\ switch_is_on' # switch_is_on
         => \E data \in SwitchStores : coordinator_refresh(data)
    ]_vars

\* a turn_on command succeeded while the switch held is_on false, and the
\* switch still holds false
C19_Witness ==
  /\ Len(switch_calls) > 0
  /\ switch_calls[Len(switch_calls)].params = [ac_slp |-> 1]
  /\ switch_calls[Len(switch_calls)].ok
  /\ ~switch_is_on
  /\ switch_available

\* C20: when async_cancel_timer or async_set_timer returns, every registration
\* that was live before the call is released, and the only one live is the one
\* the call created, if any; and whenever the recurring callback of a
\* registration fires, that registration is the one of the latest arm-cycle,
\* whose handle the sensor holds and whose deadline is set: no callback of a
\* cancelled, superseded or expired arm-cycle ever runs.
C20_ReleasedCallbackNeverFires ==
  [][ /\ lastOp'.op \in {"async_cancel_timer", "async_set_timer"}
         => /\ registrations \cap registrations' = {}
            /\ lastOp'.released = registrations
            /\ registrations' = lastOp'.created
      /\ \A h \in registrations :
           periodic_timer_update(h)
           => /\ h = handles
              /\ update_timer_handle = Some(h)
              /\ timer_end_time # None
              /\ h \notin expired
              /\ ~removed
    ]_vars

\* the first arm-cycle was cancelled or superseded without expiring, and the
\* second one is armed and has counted down on a tick or refresh
C20_Witness ==
  /\ handles = 2
  /\ 1 \notin expired
  /\ registrations = {2}
  /\ update_timer_handle = Some(2)
  /\ timer_end_time # None
  /\ attr_native_value < timer_duration[1]

\* C21 as stated: every set_device_params call of an expiry carries the record
\* of the timer's own device, never a missing one.
C21_ExpiryCallHasDevice ==
  \A i \in 1..Len(calls) :
    /\ calls[i].device # None
    /\ calls[i].device[1].endpointId = DeviceId

\* C22: a refresh that finds the device, at or after the deadline of an armed
\* timer, creates the one task of the arm-cycle, leaves the timer Idle with the
\* idle values published and releases the registration; before the deadline
\* it republishes the remaining minutes and leaves the deadline, the
\* registration, the tasks and the calls alone.  A refresh that does not find
\* the device leaves the timer fields, the published value and attributes,
\* the registration, the tasks and the calls as they were, overdue or not.
C22_RefreshExpiresOnlyIfPresent ==
  [][ ( /\ ~removed
        /\ timer_end_time # None
        /\ coordinator_refresh(coordinator_data') )
      => IF device(coordinator_data') = None
         THEN UNCHANGED << timerVars, schedVars, calls >>
         ELSE IF now >= timer_end_time[1]
         THEN /\ tasks' = tasks \cup {[id |-> ntasks + 1, cycle |-> handles,
                                        armed_action |-> target_action]}
              /\ Cardinality(tasks') = Cardinality(tasks) + 1
              /\ calls' = calls
              /\ timer_end_time' = None /\ timer_start_time' = None
              /\ timer_duration' = None
              /\ attr_native_value' = 0
              /\ ~attr_extra_state_attributes'.timer_active
              /\ update_timer_handle' = None
              /\ registrations' = {}
              /\ handles \in expired'
         ELSE /\ attr_native_value' =
                   (timer_end_time[1] - now) \div UnitsPerMinute
              /\ attr_extra_state_attributes'.timer_active
              /\ UNCHANGED << timer_start_time, timer_duration, timer_end_time,
                              target_action, update_timer_handle, schedVars, calls >>
    ]_vars

\* a refresh did not find the device and the timer, now overdue, is still
\* armed with its registration live and the countdown it last published
C22_Witness ==
  /\ ~removed
  /\ coordinator_data # None
  /\ device(coordinator_data) = None
  /\ ~attr_available
  /\ timer_end_time # None
  /\ now >= timer_end_time[1]
  /\ registrations # {}
  /\ attr_extra_state_attributes.timer_active
  /\ tasks = {}

\* the sensor's published sleep_mode_active attribute
SleepModeActive == attr_extra_state_attributes.sleep_mode_active

\* C23: in every state the sensor's sleep_mode_active attribute equals the
\* switch's is_on; a refresh that finds the device sets both to bool(ac_slp)
\* of its params, and no other step (a refresh that does not find it, a tick,
\* a timer operation, an expiry task, a switch command, the removal) changes
\* either, so both are the ac_slp of the last store the device was in, and
\* false before there was one.
C23_SensorAndSwitchAgree ==
  [][ /\ SleepModeActive = switch_is_on
      /\ SleepModeActive' = switch_is_on'
      /\ ( /\ ~removed
           /\ device(coordinator_data') # None
           /\ coordinator_refresh(coordinator_data') )
         => switch_is_on' = bool(get_ac_slp(device(coordinator_data')[1].params, 0))
      /\ (switch_is_on' # switch_is_on \/ SleepModeActive' # SleepModeActive)
         => /\ ~removed
            /\ device(coordinator_data') # None
            /\ coordinator_refresh(coordinator_data')
    ]_vars

\* after a refresh reported sleep mode on, a turn_off command succeeded and a
\* refresh no longer found the device: both entities still show sleep mode on
C23_Witness ==
  /\ ~removed
  /\ device(coordinator_data) = None
  /\ ~switch_available /\ ~attr_available
  /\ SleepModeActive
  /\ switch_is_on
  /\ Len(switch_calls) > 0
  /\ switch_calls[Len(switch_calls)].params = [ac_slp |-> 0]
  /\ switch_calls[Len(switch_calls)].ok

\* C24: the number's stored value changes only in its own set operation; a
\* set operation whose service call returns hands over one set_timer call for
\* sensor.tornado_<its device id>_timer with duration int(value) and action
\* turn_off and stores value, fraction included; one whose service call raises
\* hands over nothing, leaves the stored value as it was, logs and does not
\* raise; the set operation itself leaves the timer alone, and the handling of
\* the call, ticks, expiry, cancel, arms through the service and refreshes
\* leave the stored value alone.
C24_NumberValueOnlyBySet ==
  [][ /\ \A value \in NumberValues, ok \in BOOLEAN :
           number_set_native_value(value, ok)
           => /\ number_result' # None
              /\ ~number_result'[1].raised
              /\ UNCHANGED << timerVars, schedVars, calls >>
              /\ IF number_result'[1].ok
                 THEN /\ number_native_value' = number_result'[1].value
                      /\ service_queue' =
                           Append(service_queue,
                                  [ entity_id |-> << "sensor.tornado_", DeviceId, "_timer" >>,
                                    duration |-> number_native_value'.whole,
                                    action |-> "turn_off" ])
                 ELSE /\ number_native_value' = number_native_value
                      /\ service_queue' = service_queue
                      /\ number_result'[1].logged
      /\ number_native_value' # number_native_value
         => /\ number_result' # None
            /\ number_result'[1].ok
            /\ number_result'[1].value = number_native_value'
            /\ Len(service_queue') = Len(service_queue) + 1
      /\ (\E found \in BOOLEAN : service_dispatch(found))
         => number_native_value' = number_native_value
    ]_vars

\* the number was set to 1.5 and the timer its call armed for one minute has
\* expired; after that a set to another value raised, and the number still
\* holds 1.5
C24_Witness ==
  /\ number_native_value = NumberValue(1, 5)
  /\ number_result # None
  /\ ~number_result[1].ok
  /\ number_result[1].value # number_native_value
  /\ handles \in expired
  /\ target_action = "turn_off"
  /\ TimerIdle
====
